---- MODULE Spec2Model ----
(***************************************************************************)
(* Model of the watchdog master (forced_reset_test_master.py): the         *)
(* connection handlers (handle_client), the liveness monitor               *)
(* (monitor_loop), the reset actuator (send_plc_reset) and the telemetry   *)
(* recorder (handle_smart_message), as threads sharing last_seen and       *)
(* reset_counts without any lock.  One action is one step between two      *)
(* points at which the interpreter may switch threads.                     *)
(***************************************************************************)
EXTENDS Integers, Sequences, FiniteSets, TLC

(* ------------------------------------------------------------------ *)
(* Program constants                                                    *)
(* ------------------------------------------------------------------ *)
HEARTBEAT_TIMEOUT == 180

None == -1         \* Python None / absent dict entry
NL == "\n"
InvalidByte == "xFF"
Whitespace == {" ", "\t", "\r"}

SMART_PREFIX == <<"S", "M", "A", "R", "T", " ">>
RESET_PREFIX == <<"R", "E", "S", "E", "T">>

(* ------------------------------------------------------------------ *)
(* Bounds of the model                                                  *)
(* ------------------------------------------------------------------ *)
NumSlaves == 2      \* registry entries modelled (the source lists six)
NumConns == 2       \* connections the acceptor hands to handler threads
MaxRecvs == 2       \* chunks received over all connections
MaxResets == 2      \* actuator invocations over all workers
MaxTicks == 1       \* clock advances

(* The registry: slave address (last octet) -> relay number.            *)
Slaves == 100..(99 + NumSlaves)
UnknownIP == 200
Peers == Slaves \cup {UnknownIP}
Conns == 1..NumConns
(* Addresses a connection may come from.  The first connection comes    *)
(* from the first registered slave, the others from any address: the    *)
(* other assignments are these with the connections renamed.            *)
ConnPeers(c) == IF c = 1 THEN {100} ELSE Peers
Mon == 0
Workers == Conns \cup {Mon}

(* Variant: a lookup that falls back to the first relay.                *)
RelayOrFirst(ip) == IF ip \in Slaves THEN 400 + ip ELSE 500

SLAVE_TO_RELAY(ip) == IF ip \in Slaves THEN 400 + ip ELSE None
Relays == {SLAVE_TO_RELAY(ip) : ip \in Slaves}

(* Registry in iteration order (dict order of SLAVE_TO_RELAY.items()).  *)
ScanOrder == [i \in 1..NumSlaves |-> 99 + i]

(* ------------------------------------------------------------------ *)
(* Line protocol helpers                                                *)
(* ------------------------------------------------------------------ *)
StartsWith(s, p) == Len(s) >= Len(p) /\ SubSeq(s, 1, Len(p)) = p

Decode(b) == SelectSeq(b, LAMBDA x : x # InvalidByte)

RECURSIVE LStrip(_)
LStrip(s) == IF s # <<>> /\ Head(s) \in Whitespace THEN LStrip(Tail(s)) ELSE s

RECURSIVE RStrip(_)
RStrip(s) == IF s # <<>> /\ s[Len(s)] \in Whitespace
             THEN RStrip(SubSeq(s, 1, Len(s) - 1)) ELSE s

Strip(s) == RStrip(LStrip(s))

HasNL(buf) == \E i \in 1..Len(buf) : buf[i] = NL
FirstNL(buf) == CHOOSE i \in 1..Len(buf) : buf[i] = NL /\ \A j \in 1..(i - 1) : buf[j] # NL
SplitHead(buf) == SubSeq(buf, 1, FirstNL(buf) - 1)
SplitRest(buf) == SubSeq(buf, FirstNL(buf) + 1, Len(buf))

(* json.loads on the payloads the model sends: the texts that decode.   *)
JsonTexts == { <<"{", "}">> }
JsonLoads(s) == IF s \in JsonTexts THEN [ok |-> TRUE, obj |-> s] ELSE [ok |-> FALSE, obj |-> <<>>]

HBLine == <<"H", "B">>
SmartGoodLine == SMART_PREFIX \o <<"{", "}">>
SmartBadLine == SMART_PREFIX \o <<"{">>
ResetLine == RESET_PREFIX
BlankLine == <<" ">>
Lines == {HBLine, SmartGoodLine, SmartBadLine, ResetLine, BlankLine}
OneLine == {l \o <<NL>> : l \in Lines}
Chunks == OneLine \cup {SmartBadLine \o <<NL>> \o SmartGoodLine \o <<NL>>}

(* Classification of a trimmed, non-empty line (handle_client).        *)
Classify(line) ==
    IF StartsWith(line, SMART_PREFIX) THEN "SMART"
    ELSE IF StartsWith(line, RESET_PREFIX) THEN "RESET"
    ELSE "HB"

(* send_plc_reset: what can happen to one invocation, and its result.   *)
Outcomes == {"connect_fail", "send_fail", "reply", "no_reply", "reply_error"}
CommandSent(o) == o \in {"reply", "no_reply", "reply_error"}
send_plc_reset(o) == o \in {"reply", "no_reply"}

(* Variant: last_seen.get(ip, 0), an absent entry read as time 0.       *)
TimedOutDefaultZero(last, now) ==
    now - (IF last = None THEN 0 ELSE last) > HEARTBEAT_TIMEOUT

(* Variant: the timeout reached rather than exceeded.                   *)
TimedOutInclusive(last, now) == last # None /\ now - last >= HEARTBEAT_TIMEOUT

(* The monitor's staleness test.                                        *)
TimedOut(last, now) == last # None /\ now - last > HEARTBEAT_TIMEOUT

VARIABLES
    clock,          \* time.time(), in seconds
    last_seen,      \* address -> time of last message, or None
    reset_counts,   \* relay -> counter
    countsFile,     \* reset_counts_simple.txt: lines <<relay, count>>
    smartFile,      \* relay -> lines of smart_<relay>.jsonl
    hpc, hip, hbuf, hobj, ht,   \* handler: position, peer, buffer, payload, time read
    tmp,            \* worker -> value read from reset_counts
    mpc, mnow, midx, mwake,     \* monitor: position, now, scan index, wake-up time
    attempts,       \* relay -> actuator invocations            (history)
    successes,      \* relay -> invocations that returned True  (history)
    tickAtt,        \* slave -> actuator invocations in the current tick (history)
    staleStart,     \* slaves timed out when the current tick read the clock (history)
    staleRead,      \* slaves the current tick's scan found timed out (history)
    hkind, hAtt, hbad,  \* handler: class of the line in hand, actuator invocations
                        \* for it, a bad SMART was dropped (history)
    ioFailed,       \* some append to a file failed (history)
    recvs,          \* chunks received so far
    peer,           \* connection -> "open", or how the peer went away
    hcnt,           \* handler: the relay's counter when the line in hand was
                    \* split off the buffer (history)
    apc, arelay, aout, asent, aret, \* send_plc_reset, statement by statement
    spc, sinfo, wire, beats, rpc,   \* the slave agent and what it has sent
    cwhole, cstream, cbuf, cout     \* a byte stream fed to the line splitter

vars == <<clock, last_seen, reset_counts, countsFile, smartFile, hpc, hip, hbuf, hobj,
          ht, tmp, mpc, mnow, midx, mwake, attempts, successes, tickAtt, staleStart,
          staleRead, hkind, hAtt, hbad, ioFailed, recvs, peer, hcnt,
          apc, arelay, aout, asent, aret, spc, sinfo, wire, beats, rpc,
          cwhole, cstream, cbuf, cout>>

shared == <<last_seen, reset_counts, countsFile, smartFile>>
hvars == <<hpc, hip, hbuf, hobj, ht, hkind, hAtt, hbad, recvs>>
mvars == <<mpc, mnow, midx, mwake, tickAtt, staleStart, staleRead>>
hist == <<attempts, successes, ioFailed>>
avars == <<apc, arelay, aout, asent, aret>>
svars == <<spc, sinfo, wire, beats, rpc>>
cvars == <<cwhole, cstream, cbuf, cout>>
xvars == <<peer, avars, svars, cvars>>

RECURSIVE SumOver(_, _)
SumOver(f, S) == IF S = {} THEN 0
                 ELSE LET x == CHOOSE y \in S : TRUE IN f[x] + SumOver(f, S \ {x})

TotalAttempts == SumOver(attempts, Relays)

(* send_plc_reset is not running.                                       *)
InitActuator ==
    /\ apc = "idle"
    /\ arelay = None
    /\ aout = "none"
    /\ asent = FALSE
    /\ aret = FALSE

(* The slave agent has not started.                                     *)
InitSlave ==
    /\ spc = "off"
    /\ sinfo = [none |-> TRUE, out |-> <<>>]
    /\ wire = <<>>
    /\ beats = 0
    /\ rpc = "off"

(* No byte stream is being fed to the line splitter.                    *)
InitStream ==
    /\ cwhole = <<>>
    /\ cstream = <<>>
    /\ cbuf = <<>>
    /\ cout = <<>>

(* The master after construction: module-level state of lines 37-38,    *)
(* no connection accepted, the monitor about to start its first tick.   *)
InitMaster ==
    /\ clock = 0
    /\ last_seen = [ip \in Peers |-> None]
    /\ reset_counts = [r \in Relays |-> 0]
    /\ countsFile = <<>>
    /\ smartFile = [r \in Relays |-> <<>>]
    /\ hpc = [c \in Conns |-> "idle"]
    /\ hip = [c \in Conns |-> None]
    /\ hbuf = [c \in Conns |-> <<>>]
    /\ hobj = [c \in Conns |-> <<>>]
    /\ ht = [c \in Conns |-> 0]
    /\ tmp = [w \in Workers |-> 0]
    /\ mpc = "tick"
    /\ mnow = 0
    /\ midx = 1
    /\ mwake = 0
    /\ attempts = [r \in Relays |-> 0]
    /\ successes = [r \in Relays |-> 0]
    /\ tickAtt = [ip \in Slaves |-> 0]
    /\ staleStart = {}
    /\ staleRead = {}
    /\ hkind = [c \in Conns |-> "none"]
    /\ hAtt = [c \in Conns |-> 0]
    /\ hbad = [c \in Conns |-> FALSE]
    /\ ioFailed = FALSE
    /\ recvs = 0
    /\ peer = [c \in Conns |-> "open"]
    /\ hcnt = [c \in Conns |-> 0]

Init ==
    /\ InitMaster
    /\ InitActuator
    /\ InitSlave
    /\ InitStream

(* ------------------------------------------------------------------ *)
(* The clock                                                            *)
(* ------------------------------------------------------------------ *)
(* Time passes in steps that land on and just past the timeout.         *)
Delays == {HEARTBEAT_TIMEOUT, HEARTBEAT_TIMEOUT + 1}
AdvancesUsed == clock \div HEARTBEAT_TIMEOUT

Advance(d) ==
    /\ AdvancesUsed < MaxTicks
    /\ clock' = clock + d
    /\ UNCHANGED <<xvars, hcnt, shared, hvars, tmp, mvars, hist>>

(* ------------------------------------------------------------------ *)
(* start_server: accept a connection, start a handler thread            *)
(* ------------------------------------------------------------------ *)
Accept(c, ip) ==
    /\ hpc[c] = "idle"
    /\ hpc' = [hpc EXCEPT ![c] = "recv"]
    /\ hip' = [hip EXCEPT ![c] = ip]
    /\ hbuf' = [hbuf EXCEPT ![c] = <<>>]
    /\ UNCHANGED <<xvars, hcnt, clock, shared, hobj, ht, hkind, hAtt, hbad, recvs, tmp, mvars, hist>>

(* ------------------------------------------------------------------ *)
(* handle_client                                                        *)
(* ------------------------------------------------------------------ *)
(* data = conn.recv(4096) returned bytes: buffer += data                *)
HRecv(c, data) ==
    /\ hpc[c] = "recv"
    /\ peer[c] = "open"
    /\ recvs < MaxRecvs
    /\ hbuf' = [hbuf EXCEPT ![c] = @ \o data]
    /\ hpc' = [hpc EXCEPT ![c] = "split"]
    /\ recvs' = recvs + 1
    /\ UNCHANGED <<xvars, hcnt, clock, shared, hip, hobj, ht, hkind, hAtt, hbad, tmp, mvars, hist>>

(* Variant: `continue` in place of `break` when recv returns b"".        *)
HAfterEndRetry == "recv"

(* `if not data: break`, or the exception handler: control leaves the   *)
(* loop, the finally clause closes the connection, the thread ends.     *)
HAfterEnd == "closed"

(* recv returned b"" (peer closed) or raised (idle timeout, read error): *)
(* the loop ends and the finally clause closes the connection.          *)
HRecvEnd(c) ==
    /\ hpc[c] = "recv"
    /\ hpc' = [hpc EXCEPT ![c] = HAfterEnd]
    /\ UNCHANGED <<xvars, hcnt, clock, shared, hip, hbuf, hobj, ht, hkind, hAtt, hbad, recvs,
                   tmp, mvars, hist>>

(* Variant: a RESET from an unknown sender is ignored altogether.       *)
DispatchSkipUnknown(line, ip) ==
    IF Classify(line) = "SMART"
    THEN IF JsonLoads(SubSeq(line, Len(SMART_PREFIX) + 1, Len(line))).ok
         THEN IF SLAVE_TO_RELAY(ip) = None THEN "touch" ELSE "smart"
         ELSE "touch"
    ELSE IF Classify(line) = "RESET"
         THEN IF SLAVE_TO_RELAY(ip) # None THEN "actuate" ELSE "split"
         ELSE "touch"

(* Variant: the decode error escapes to the handler's outer except,     *)
(* which closes the connection.                                         *)
DispatchRaise(line, ip) ==
    IF Classify(line) = "SMART"
    THEN IF JsonLoads(SubSeq(line, Len(SMART_PREFIX) + 1, Len(line))).ok
         THEN IF SLAVE_TO_RELAY(ip) = None THEN "touch" ELSE "smart"
         ELSE "closed"
    ELSE IF Classify(line) = "RESET"
         THEN IF SLAVE_TO_RELAY(ip) # None THEN "actuate" ELSE "touch"
         ELSE "touch"

(* Variant: every line that is not SMART is treated as a reset request. *)
DispatchAllReset(line, ip) ==
    IF Classify(line) = "SMART"
    THEN IF JsonLoads(SubSeq(line, Len(SMART_PREFIX) + 1, Len(line))).ok
         THEN IF SLAVE_TO_RELAY(ip) = None THEN "touch" ELSE "smart"
         ELSE "touch"
    ELSE IF SLAVE_TO_RELAY(ip) # None THEN "actuate" ELSE "touch"

(* Where the classification of a trimmed line sends the handler.        *)
Dispatch(line, ip) ==
    IF Classify(line) = "SMART"
    THEN IF JsonLoads(SubSeq(line, Len(SMART_PREFIX) + 1, Len(line))).ok
         THEN IF SLAVE_TO_RELAY(ip) = None THEN "touch" ELSE "smart"
         ELSE "touch"
    ELSE IF Classify(line) = "RESET"
         THEN IF SLAVE_TO_RELAY(ip) # None THEN "actuate" ELSE "touch"
         ELSE "touch"

(* One pass of `while b"\n" in buffer`: split a line off, trim it,      *)
(* classify it.                                                         *)
HSplit(c) ==
    /\ hpc[c] = "split"
    /\ IF ~HasNL(hbuf[c])
       THEN /\ hpc' = [hpc EXCEPT ![c] = "recv"]
            /\ UNCHANGED <<hbuf, hobj, hkind, hAtt, hbad, hcnt>>
       ELSE LET line == Strip(Decode(SplitHead(hbuf[c])))
                payload == SubSeq(line, Len(SMART_PREFIX) + 1, Len(line))
            IN /\ hbuf' = [hbuf EXCEPT ![c] = SplitRest(hbuf[c])]
               /\ IF line = <<>>
                  THEN /\ hpc' = [hpc EXCEPT ![c] = "split"]
                       /\ hkind' = [hkind EXCEPT ![c] = "none"]
                       /\ UNCHANGED <<hobj, hbad, hcnt>>
                  ELSE /\ hpc' = [hpc EXCEPT ![c] = Dispatch(line, hip[c])]
                       /\ hcnt' = [hcnt EXCEPT ![c] =
                              IF Dispatch(line, hip[c]) = "smart"
                              THEN reset_counts[SLAVE_TO_RELAY(hip[c])] ELSE @]
                       /\ hkind' = [hkind EXCEPT ![c] = Classify(line)]
                       /\ hobj' = [hobj EXCEPT ![c] =
                              IF Classify(line) = "SMART" THEN JsonLoads(payload).obj ELSE <<>>]
                       /\ hbad' = [hbad EXCEPT ![c] =
                              @ \/ (Classify(line) = "SMART" /\ ~JsonLoads(payload).ok)]
               /\ hAtt' = [hAtt EXCEPT ![c] = 0]
    /\ UNCHANGED <<xvars, clock, shared, hip, ht, recvs, tmp, mvars, hist>>

(* handle_smart_message: build the record (reads reset_counts)          *)
HSmartRecord(c) ==
    /\ hpc[c] = "smart"
    /\ tmp' = [tmp EXCEPT ![c] = reset_counts[SLAVE_TO_RELAY(hip[c])]]
    /\ hpc' = [hpc EXCEPT ![c] = "smart_write"]
    /\ UNCHANGED <<xvars, hcnt, clock, shared, hip, hbuf, hobj, ht, hkind, hAtt, hbad, recvs,
                   mvars, hist>>

(* Variant: the record is built when the file is written, from the     *)
(* counter as it is then.                                               *)
HSmartWriteLate(c, wrote) ==
    /\ hpc[c] = "smart_write"
    /\ LET relay == SLAVE_TO_RELAY(hip[c])
           record == [slave_ip |-> hip[c], relay |-> relay, reset_count |-> reset_counts[relay],
                      smart |-> hobj[c]]
       IN smartFile' = IF wrote THEN [smartFile EXCEPT ![relay] = Append(@, record)]
                       ELSE smartFile
    /\ ioFailed' = (ioFailed \/ ~wrote)
    /\ hpc' = [hpc EXCEPT ![c] = "touch"]
    /\ hobj' = [hobj EXCEPT ![c] = <<>>]
    /\ tmp' = [tmp EXCEPT ![c] = 0]
    /\ hcnt' = [hcnt EXCEPT ![c] = 0]
    /\ UNCHANGED <<xvars, clock, last_seen, reset_counts, countsFile, hip, hbuf, ht, hkind,
                   hAtt, hbad, recvs, mvars, attempts, successes>>

(* handle_smart_message: append the record; a failed append is logged   *)
HSmartWrite(c, wrote) ==
    /\ hpc[c] = "smart_write"
    /\ LET relay == SLAVE_TO_RELAY(hip[c])
           record == [slave_ip |-> hip[c], relay |-> relay, reset_count |-> tmp[c],
                      smart |-> hobj[c]]
       IN smartFile' = IF wrote THEN [smartFile EXCEPT ![relay] = Append(@, record)]
                       ELSE smartFile
    /\ ioFailed' = (ioFailed \/ ~wrote)
    /\ hpc' = [hpc EXCEPT ![c] = "touch"]
    /\ hobj' = [hobj EXCEPT ![c] = <<>>]
    /\ tmp' = [tmp EXCEPT ![c] = 0]
    /\ hcnt' = [hcnt EXCEPT ![c] = 0]
    /\ UNCHANGED <<xvars, clock, last_seen, reset_counts, countsFile, hip, hbuf, ht, hkind,
                   hAtt, hbad, recvs, mvars, attempts, successes>>

(* ------------------------------------------------------------------ *)
(* The steps both kinds of worker take after `ok = send_plc_reset(relay)`: *)
(* reset_counts[relay] = reset_counts.get(relay, 0) + 1, then the append *)
(* of f"{relay} {reset_counts[relay]}" to the counts file.               *)
(* ------------------------------------------------------------------ *)
Invoke(relay, o) ==
    /\ TotalAttempts < MaxResets
    /\ attempts' = [attempts EXCEPT ![relay] = @ + 1]
    /\ successes' = [successes EXCEPT ![relay] = IF send_plc_reset(o) THEN @ + 1 ELSE @]

(* reset_counts.get(relay, 0)                                           *)
CountRead(w, relay) == tmp' = [tmp EXCEPT ![w] = reset_counts[relay]]

(* reset_counts[relay] = <value read> + 1                               *)
CountWrite(w, relay) ==
    /\ reset_counts' = [reset_counts EXCEPT ![relay] = tmp[w] + 1]
    /\ tmp' = [tmp EXCEPT ![w] = 0]

(* open(RESET_COUNTS_FILE, "a") and the formatting of the line          *)
LogOpen(w, relay, opened) ==
    /\ tmp' = [tmp EXCEPT ![w] = IF opened THEN reset_counts[relay] ELSE @]
    /\ ioFailed' = (ioFailed \/ ~opened)

(* f.write(line)                                                        *)
LogWrite(w, relay) ==
    /\ countsFile' = Append(countsFile, <<relay, tmp[w]>>)
    /\ tmp' = [tmp EXCEPT ![w] = 0]

(* ------------------------------------------------------------------ *)
(* handle_client, RESET branch                                          *)
(* ------------------------------------------------------------------ *)
(* `if ok:` after the handler's actuation: on failure nothing is       *)
(* counted and the handler goes on to record last_seen.                 *)
HAfterReset(ok) == IF ok THEN "inc_read" ELSE "touch"

HActuate(c, o) ==
    /\ hpc[c] = "actuate"
    /\ Invoke(SLAVE_TO_RELAY(hip[c]), o)
    /\ hAtt' = [hAtt EXCEPT ![c] = @ + 1]
    /\ hpc' = [hpc EXCEPT ![c] = HAfterReset(send_plc_reset(o))]
    /\ UNCHANGED <<xvars, hcnt, clock, shared, hip, hbuf, hobj, ht, hkind, hbad, recvs, tmp,
                   mvars, ioFailed>>

HIncRead(c) ==
    /\ hpc[c] = "inc_read"
    /\ CountRead(c, SLAVE_TO_RELAY(hip[c]))
    /\ hpc' = [hpc EXCEPT ![c] = "inc_write"]
    /\ UNCHANGED <<xvars, hcnt, clock, shared, hip, hbuf, hobj, ht, hkind, hAtt, hbad, recvs,
                   mvars, hist>>

HIncWrite(c) ==
    /\ hpc[c] = "inc_write"
    /\ CountWrite(c, SLAVE_TO_RELAY(hip[c]))
    /\ hpc' = [hpc EXCEPT ![c] = "log_open"]
    /\ UNCHANGED <<xvars, hcnt, clock, last_seen, countsFile, smartFile, hip, hbuf, hobj, ht, hkind,
                   hAtt, hbad, recvs, mvars, hist>>

HLogOpen(c, opened) ==
    /\ hpc[c] = "log_open"
    /\ LogOpen(c, SLAVE_TO_RELAY(hip[c]), opened)
    /\ hpc' = [hpc EXCEPT ![c] = IF opened THEN "log_write" ELSE "touch"]
    /\ UNCHANGED <<xvars, hcnt, clock, shared, hip, hbuf, hobj, ht, hkind, hAtt, hbad, recvs,
                   mvars, attempts, successes>>

HLogWrite(c) ==
    /\ hpc[c] = "log_write"
    /\ LogWrite(c, SLAVE_TO_RELAY(hip[c]))
    /\ hpc' = [hpc EXCEPT ![c] = "touch"]
    /\ UNCHANGED <<xvars, hcnt, clock, last_seen, reset_counts, smartFile, hip, hbuf, hobj, ht, hkind,
                   hAtt, hbad, recvs, mvars, hist>>

(* last_seen[slave_ip] = time.time(): the clock is read, then stored    *)
HTouch(c) ==
    /\ hpc[c] = "touch"
    /\ ht' = [ht EXCEPT ![c] = clock]
    /\ hpc' = [hpc EXCEPT ![c] = "store"]
    /\ UNCHANGED <<xvars, hcnt, clock, shared, hip, hbuf, hobj, hkind, hAtt, hbad, recvs, tmp,
                   mvars, hist>>

HStore(c) ==
    /\ hpc[c] = "store"
    /\ last_seen' = [last_seen EXCEPT ![hip[c]] = ht[c]]
    /\ hpc' = [hpc EXCEPT ![c] = "split"]
    /\ ht' = [ht EXCEPT ![c] = 0]
    /\ hkind' = [hkind EXCEPT ![c] = "none"]
    /\ hAtt' = [hAtt EXCEPT ![c] = 0]
    /\ UNCHANGED <<xvars, hcnt, clock, reset_counts, countsFile, smartFile, hip, hbuf, hobj, hbad,
                   recvs, tmp, mvars, hist>>

(* ------------------------------------------------------------------ *)
(* monitor_loop                                                         *)
(* ------------------------------------------------------------------ *)
(* now = time.time(); the for loop starts                               *)
MTick ==
    /\ mpc = "tick"
    /\ mnow' = clock
    /\ midx' = 1
    /\ mpc' = "scan"
    /\ tickAtt' = [ip \in Slaves |-> 0]
    /\ staleStart' = {ip \in Slaves : TimedOut(last_seen[ip], clock)}
    /\ staleRead' = {}
    /\ UNCHANGED <<xvars, hcnt, clock, shared, hvars, tmp, mwake, hist>>

(* Variant: the age test is left out, every slave seen is actuated.     *)
MScanNoAge ==
    /\ mpc = "scan"
    /\ IF midx > NumSlaves
       THEN /\ mpc' = "sleep"
            /\ mwake' = clock + 1
            /\ UNCHANGED <<midx, staleRead>>
       ELSE LET ip == ScanOrder[midx]
            IN IF last_seen[ip] # None
               THEN /\ mpc' = "actuate"
                    /\ staleRead' = staleRead \cup {ip}
                    /\ UNCHANGED <<midx, mwake>>
               ELSE /\ midx' = midx + 1
                    /\ UNCHANGED <<mpc, mwake, staleRead>>
    /\ UNCHANGED <<xvars, hcnt, clock, shared, hvars, tmp, mnow, tickAtt, staleStart, hist>>

(* last = last_seen.get(ip) and the two tests on it; after the last     *)
(* registry entry the loop ends and time.sleep(1.0) starts              *)
MScan ==
    /\ mpc = "scan"
    /\ IF midx > NumSlaves
       THEN /\ mpc' = "sleep"
            /\ mwake' = clock + 1
            /\ UNCHANGED <<midx, staleRead>>
       ELSE LET ip == ScanOrder[midx]
            IN IF TimedOut(last_seen[ip], mnow)
               THEN /\ mpc' = "actuate"
                    /\ staleRead' = staleRead \cup {ip}
                    /\ UNCHANGED <<midx, mwake>>
               ELSE /\ midx' = midx + 1
                    /\ UNCHANGED <<mpc, mwake, staleRead>>
    /\ UNCHANGED <<xvars, hcnt, clock, shared, hvars, tmp, mnow, tickAtt, staleStart, hist>>

(* Variant: a failed actuation is tried again.                          *)
MAfterResetRetry(ok) == IF ok THEN "inc_read" ELSE "actuate"

(* Variant: the error of a failed actuation leaves send_plc_reset and   *)
(* ends the monitor loop.                                               *)
MAfterResetRaise(ok) == IF ok THEN "inc_read" ELSE "dead"

(* `if ok:` after the monitor's actuation: on failure the loop goes on  *)
(* to the next registry entry.                                          *)
MAfterReset(ok) == IF ok THEN "inc_read" ELSE "scan"

(* Variant: the actuation refreshes the slave's entry, a cooldown.      *)
MActuateCooldown(o) ==
    /\ mpc = "actuate"
    /\ Invoke(SLAVE_TO_RELAY(ScanOrder[midx]), o)
    /\ tickAtt' = [tickAtt EXCEPT ![ScanOrder[midx]] = @ + 1]
    /\ last_seen' = [last_seen EXCEPT ![ScanOrder[midx]] = mnow]
    /\ mpc' = MAfterReset(send_plc_reset(o))
    /\ midx' = IF mpc' = "scan" THEN midx + 1 ELSE midx
    /\ UNCHANGED <<xvars, hcnt, clock, reset_counts, countsFile, smartFile, hvars, tmp, mnow, mwake, staleStart, staleRead, ioFailed>>

(* ok = send_plc_reset(relay); last_seen is left as it is.              *)
MActuate(o) ==
    /\ mpc = "actuate"
    /\ Invoke(SLAVE_TO_RELAY(ScanOrder[midx]), o)
    /\ tickAtt' = [tickAtt EXCEPT ![ScanOrder[midx]] = @ + 1]
    /\ mpc' = MAfterReset(send_plc_reset(o))
    /\ midx' = IF mpc' = "scan" THEN midx + 1 ELSE midx
    /\ UNCHANGED <<xvars, hcnt, clock, shared, hvars, tmp, mnow, mwake, staleStart, staleRead, ioFailed>>

MIncRead ==
    /\ mpc = "inc_read"
    /\ CountRead(Mon, SLAVE_TO_RELAY(ScanOrder[midx]))
    /\ mpc' = "inc_write"
    /\ UNCHANGED <<xvars, hcnt, clock, shared, hvars, mnow, midx, mwake, tickAtt, staleStart, staleRead,
                   hist>>

MIncWrite ==
    /\ mpc = "inc_write"
    /\ CountWrite(Mon, SLAVE_TO_RELAY(ScanOrder[midx]))
    /\ mpc' = "log_open"
    /\ UNCHANGED <<xvars, hcnt, clock, last_seen, countsFile, smartFile, hvars, mnow, midx, mwake,
                   tickAtt, staleStart, staleRead, hist>>

MLogOpen(opened) ==
    /\ mpc = "log_open"
    /\ LogOpen(Mon, SLAVE_TO_RELAY(ScanOrder[midx]), opened)
    /\ IF opened
       THEN mpc' = "log_write" /\ midx' = midx
       ELSE mpc' = "scan" /\ midx' = midx + 1
    /\ UNCHANGED <<xvars, hcnt, clock, shared, hvars, mnow, mwake, tickAtt, staleStart, staleRead,
                   attempts, successes>>

MLogWrite ==
    /\ mpc = "log_write"
    /\ LogWrite(Mon, SLAVE_TO_RELAY(ScanOrder[midx]))
    /\ mpc' = "scan"
    /\ midx' = midx + 1
    /\ UNCHANGED <<xvars, hcnt, clock, last_seen, reset_counts, smartFile, hvars, mnow, mwake,
                   tickAtt, staleStart, staleRead, hist>>

(* time.sleep(1.0) returns                                              *)
MWake ==
    /\ mpc = "sleep"
    /\ clock >= mwake
    /\ mpc' = "tick"
    /\ mnow' = 0
    /\ midx' = 1
    /\ mwake' = 0
    /\ tickAtt' = [ip \in Slaves |-> 0]
    /\ staleStart' = {}
    /\ staleRead' = {}
    /\ UNCHANGED <<xvars, hcnt, clock, shared, hvars, tmp, hist>>

Next ==
    \/ \E d \in Delays : Advance(d)
    \/ \E c \in Conns : \E ip \in ConnPeers(c) : Accept(c, ip)
    \/ \E c \in Conns, data \in Chunks : HRecv(c, data)
    \/ \E c \in Conns : HRecvEnd(c)
    \/ \E c \in Conns : HSplit(c)
    \/ \E c \in Conns : HSmartRecord(c)
    \/ \E c \in Conns, wrote \in BOOLEAN : HSmartWrite(c, wrote)
    \/ \E c \in Conns, o \in Outcomes : HActuate(c, o)
    \/ \E c \in Conns : HIncRead(c)
    \/ \E c \in Conns : HIncWrite(c)
    \/ \E c \in Conns, opened \in BOOLEAN : HLogOpen(c, opened)
    \/ \E c \in Conns : HLogWrite(c)
    \/ \E c \in Conns : HTouch(c)
    \/ \E c \in Conns : HStore(c)
    \/ MTick
    \/ MScan
    \/ \E o \in Outcomes : MActuate(o)
    \/ MIncRead
    \/ MIncWrite
    \/ \E opened \in BOOLEAN : MLogOpen(opened)
    \/ MLogWrite
    \/ MWake

Spec == Init /\ [][Next]_vars

(* ------------------------------------------------------------------ *)
(* The cadence scenario: one registered slave reports a heartbeat every *)
(* second and then falls silent, while the monitor ticks once a second. *)
(* ------------------------------------------------------------------ *)
FirstSlave == ScanOrder[1]
HBChunk == HBLine \o <<NL>>

(* One second passes: the monitor has run this second's tick and sleeps, *)
(* and while the slave still reports, this second's heartbeat has been  *)
(* recorded.                                                            *)
Second ==
    /\ mpc = "sleep"
    /\ mwake = clock + 1
    /\ hpc[1] = "recv"
    /\ last_seen[FirstSlave] = clock \/ recvs = MaxRecvs
    /\ clock' = clock + 1
    /\ UNCHANGED <<xvars, hcnt, shared, hvars, tmp, mvars, hist>>

(* The slave's heartbeat for the current second.                        *)
Report ==
    /\ last_seen[FirstSlave] # clock
    /\ HRecv(1, HBChunk)

NextCadence ==
    \/ Accept(1, FirstSlave)
    \/ Report
    \/ HSplit(1)
    \/ HTouch(1)
    \/ HStore(1)
    \/ Second
    \/ MTick
    \/ MScan
    \/ \E o \in Outcomes : MActuate(o)
    \/ MIncRead
    \/ MIncWrite
    \/ \E opened \in BOOLEAN : MLogOpen(opened)
    \/ MLogWrite
    \/ MWake

SpecCadence == Init /\ [][NextCadence]_vars

(* ================================================================== *)
(* Properties                                                           *)
(* ================================================================== *)
Counting == {"inc_read", "inc_write"}
Logging == {"log_open", "log_write"}
Processing == {"smart", "smart_write", "actuate", "inc_read", "inc_write", "log_open",
               "log_write", "touch", "store"}

(* Workers that hold a successful actuation for relay r whose increment *)
(* of reset_counts has not been written yet.                            *)
PendingInc(r) ==
    Cardinality({c \in Conns : hpc[c] \in Counting /\ SLAVE_TO_RELAY(hip[c]) = r})
    + (IF mpc \in Counting /\ SLAVE_TO_RELAY(ScanOrder[midx]) = r THEN 1 ELSE 0)

(* Workers that have counted a successful actuation for relay r and     *)
(* have not appended its line yet.                                      *)
PendingLog(r) ==
    Cardinality({c \in Conns : hpc[c] \in Logging /\ SLAVE_TO_RELAY(hip[c]) = r})
    + (IF mpc \in Logging /\ SLAVE_TO_RELAY(ScanOrder[midx]) = r THEN 1 ELSE 0)

LinesOf(r) == SelectSeq(countsFile, LAMBDA l : l[1] = r)

Registered(c) == hpc[c] # "idle" /\ hip[c] \in Slaves
Unregistered(c) == hpc[c] # "idle" /\ hip[c] \notin Slaves

(* Handler c takes a step.                                              *)
HandlerMoved(c) == hpc'[c] # hpc[c] \/ hbuf'[c] # hbuf[c]
MonitorMoved == mpc' # mpc \/ midx' # midx

(* Handler c splits a line off its buffer.                              *)
LineTaken(c) == hpc[c] = "split" /\ HasNL(hbuf[c]) /\ hbuf'[c] = SplitRest(hbuf[c])
TakenLine(c) == Strip(Decode(SplitHead(hbuf[c])))
BadSmart(line) == Classify(line) = "SMART"
                  /\ ~JsonLoads(SubSeq(line, Len(SMART_PREFIX) + 1, Len(line))).ok

(* C1: once every worker that actuated successfully for a relay has     *)
(* written its increment, the relay's counter equals the number of      *)
(* successful actuations: no increment is lost.                         *)
C1_NoLostIncrement ==
    \A r \in Relays : PendingInc(r) = 0 => reset_counts[r] = successes[r]

(* C2: the monitor never invokes the actuator for a registered slave    *)
(* that has no last_seen entry.                                         *)
C2_NeverSeenNeverReset ==
    /\ \A ip \in Slaves : last_seen[ip] = None => tickAtt[ip] = 0
    /\ mpc \in {"actuate"} \cup Counting \cup Logging => last_seen[ScanOrder[midx]] # None

C2_Witness ==
    /\ mpc = "sleep"
    /\ mnow > HEARTBEAT_TIMEOUT
    /\ last_seen[101] = None
    /\ tickAtt[100] = 1

(* C3 as claimed: every slave timed out when the tick read the clock    *)
(* gets exactly one actuation attempt in that tick.                     *)
C3_StaleAtStart ==
    mpc = "sleep" => \A ip \in staleStart : tickAtt[ip] = 1

(* C3 as amended: every slave whose last_seen, when the tick's scan     *)
(* reads it, is older than the tick's `now` by more than the timeout    *)
(* gets exactly one attempt in that tick, every other slave none,       *)
(* whatever the attempts for the other slaves returned.                 *)
C3_StaleWhenRead ==
    /\ \A ip \in Slaves : tickAtt[ip] <= 1
    /\ \A i \in 1..NumSlaves :
          (mpc = "sleep" \/ (mpc # "tick" /\ midx > i))
          => tickAtt[ScanOrder[i]] = (IF ScanOrder[i] \in staleRead THEN 1 ELSE 0)

C3_Witness ==
    /\ mpc = "sleep"
    /\ staleRead = Slaves
    /\ attempts[500] = 1 /\ successes[500] = 0
    /\ tickAtt[101] = 1

(* C4: a RESET line from a registered slave makes the handler invoke    *)
(* the actuator exactly once; a failure is not retried; on success the  *)
(* handler's write raises the relay's counter by exactly 1.             *)
C4_ResetCountsOnce ==
    /\ [](\A c \in Conns : hAtt[c] <= 1)
    /\ [][\A c \in Conns :
            /\ (LineTaken(c) /\ Registered(c) /\ Classify(TakenLine(c)) = "RESET")
               => hpc'[c] = "actuate"
            /\ (hpc[c] = "actuate" /\ hpc'[c] # "actuate")
               => (hAtt'[c] = 1 /\ hpc'[c] \in {"inc_read", "touch"})
            /\ (hpc[c] = "inc_write" /\ hpc'[c] # "inc_write")
               => reset_counts'[SLAVE_TO_RELAY(hip[c])]
                  = reset_counts[SLAVE_TO_RELAY(hip[c])] + 1]_vars

(* C5 as claimed: every line split off the buffer makes the handler     *)
(* read the clock and store it as last_seen of the sender.              *)
C5_EveryLine ==
    [][\A c \in Conns :
        /\ LineTaken(c) => hpc'[c] \in Processing
        /\ (hpc[c] \in Processing /\ hpc'[c] \notin Processing)
           => (hpc[c] = "store" /\ last_seen'[hip[c]] = ht[c])
        /\ (hpc[c] = "touch" /\ hpc'[c] # "touch")
           => (hpc'[c] = "store" /\ ht'[c] = clock)]_vars

(* C5 as amended: every line that is not empty once trimmed makes the   *)
(* handler read the clock and store it as last_seen of the sender.      *)
C5_EveryNonEmptyLine ==
    [][\A c \in Conns :
        /\ (LineTaken(c) /\ TakenLine(c) # <<>>) => hpc'[c] \in Processing
        /\ (hpc[c] \in Processing /\ hpc'[c] \notin Processing)
           => (hpc[c] = "store" /\ last_seen'[hip[c]] = ht[c])
        /\ (hpc[c] = "touch" /\ hpc'[c] # "touch")
           => (hpc'[c] = "store" /\ ht'[c] = clock)]_vars

C5_Witness ==
    \E c \in Conns : /\ Registered(c)
                     /\ hkind[c] = "RESET" /\ hAtt[c] = 1
                     /\ successes[SLAVE_TO_RELAY(hip[c])] = 0
                     /\ hpc[c] = "store" /\ ht[c] = HEARTBEAT_TIMEOUT + 1

(* C6: in every state a relay's counter equals the number of successful *)
(* actuations for it, less those whose increment is still to be written. *)
C6_CounterIsSuccesses ==
    \A r \in Relays : reset_counts[r] + PendingInc(r) = successes[r]

(* C8: a SMART line whose payload does not decode writes no telemetry   *)
(* record and leaves the handler running with the rest of its buffer;   *)
(* a connection is closed only from recv.                               *)
C8_BadSmartDropped ==
    [][\A c \in Conns :
        /\ (LineTaken(c) /\ BadSmart(TakenLine(c)))
           => (smartFile' = smartFile /\ hpc'[c] = "touch")
        /\ (hpc'[c] = "closed" /\ hpc[c] # "closed") => hpc[c] = "recv"]_vars

C8_Witness ==
    \E c \in Conns : hbad[c] /\ hpc[c] = "smart_write"

(* C9: a step of a handler serving an unregistered address invokes no   *)
(* actuator, changes no counter and no file, and changes last_seen at   *)
(* most for that address; the handler closes only from recv; and the    *)
(* monitor actuates only relays of registered slaves that have reported. *)
C9_UnknownSenderInert ==
    [][/\ \A c \in Conns :
            (Unregistered(c) /\ HandlerMoved(c))
            => /\ attempts' = attempts /\ successes' = successes
               /\ reset_counts' = reset_counts
               /\ countsFile' = countsFile /\ smartFile' = smartFile
               /\ \A ip \in Peers \ {hip[c]} : last_seen'[ip] = last_seen[ip]
               /\ (hpc'[c] = "closed" => hpc[c] = "recv")
       /\ MonitorMoved
            => \A r \in Relays : attempts'[r] # attempts[r]
                  => \E ip \in Slaves : SLAVE_TO_RELAY(ip) = r /\ last_seen[ip] # None]_vars

C9_Witness ==
    \E c \in Conns : /\ Unregistered(c)
                     /\ hkind[c] = "RESET"
                     /\ hpc[c] = "store"
                     /\ mpc = "sleep" /\ mnow > HEARTBEAT_TIMEOUT

(* C10: if no append failed, the counts file holds one line per         *)
(* successful actuation already logged, and each relay's lines carry    *)
(* 1, 2, 3, ... in file order.                                          *)
C10_CountsFileSequential ==
    ~ioFailed =>
        \A r \in Relays :
            /\ Len(LinesOf(r)) + PendingInc(r) + PendingLog(r) = successes[r]
            /\ \A i \in 1..Len(LinesOf(r)) : LinesOf(r)[i][2] = i

(* ------------------------------------------------------------------ *)
(* The cadence scenario (SpecCadence)                                   *)
(* ------------------------------------------------------------------ *)
FirstRelay == SLAVE_TO_RELAY(FirstSlave)
Silence == mnow - last_seen[FirstSlave]
TickDone == mpc = "sleep" /\ last_seen[FirstSlave] # None

(* C7 as claimed: the first actuation is issued by the tick at which    *)
(* the silence is 180 seconds, the second by the tick at 181.           *)
C7_ResetAt180 ==
    TickDone =>
        /\ tickAtt[FirstSlave] = (IF Silence >= HEARTBEAT_TIMEOUT THEN 1 ELSE 0)
        /\ attempts[FirstRelay]
           = (IF Silence >= HEARTBEAT_TIMEOUT THEN Silence - HEARTBEAT_TIMEOUT + 1 ELSE 0)

(* C7 as amended: the tick at 180 seconds of silence issues nothing;    *)
(* the first actuation is issued by the tick at 181 seconds, exactly    *)
(* one per tick from then on, and the counter has risen by 1 for each   *)
(* one that succeeded.                                                  *)
C7_ResetAfter180 ==
    TickDone =>
        /\ tickAtt[FirstSlave] = (IF Silence > HEARTBEAT_TIMEOUT THEN 1 ELSE 0)
        /\ attempts[FirstRelay]
           = (IF Silence > HEARTBEAT_TIMEOUT THEN Silence - HEARTBEAT_TIMEOUT ELSE 0)
        /\ reset_counts[FirstRelay] = successes[FirstRelay]

C7_Witness ==
    /\ TickDone
    /\ Silence = HEARTBEAT_TIMEOUT + 2
    /\ attempts[FirstRelay] = 2
    /\ reset_counts[FirstRelay] = 2

(* ================================================================== *)
(* send_plc_reset, statement by statement                               *)
(* ================================================================== *)
(* What s.recv(1024) can do within its 1.0 s timeout: return bytes,     *)
(* return b"" (the PLC closed), raise socket.timeout, raise another     *)
(* error (the connection was reset).                                    *)
RecvResults == {"bytes", "eof", "timeout", "error"}
ReplyOutcome(r) == IF r = "timeout" THEN "no_reply"
                   ELSE IF r = "error" THEN "reply_error" ELSE "reply"

everything == <<clock, shared, hvars, tmp, mvars, peer, hcnt, svars, cvars>>

(* A caller invokes send_plc_reset(relay): cmd is built, s = None.      *)
ACall(relay) ==
    /\ apc = "idle"
    /\ TotalAttempts < MaxResets
    /\ apc' = "connect"
    /\ arelay' = relay
    /\ aout' = "none"
    /\ asent' = FALSE
    /\ aret' = FALSE
    /\ UNCHANGED <<everything, hist>>

(* socket(), settimeout(5.0), connect(): an error goes to the handler   *)
(* `except Exception`, which logs and returns False.                    *)
AConnect(ok) ==
    /\ apc = "connect"
    /\ IF ok THEN /\ apc' = "send"
                  /\ UNCHANGED <<aout, aret>>
       ELSE /\ aout' = "connect_fail"
            /\ aret' = send_plc_reset("connect_fail")
            /\ apc' = "return"
    /\ UNCHANGED <<everything, hist, arelay, asent>>

(* s.sendall(cmd)                                                       *)
ASend(ok) ==
    /\ apc = "send"
    /\ IF ok THEN /\ apc' = "recv"
                  /\ asent' = TRUE
                  /\ UNCHANGED <<aout, aret>>
       ELSE /\ aout' = "send_fail"
            /\ aret' = send_plc_reset("send_fail")
            /\ apc' = "return"
            /\ UNCHANGED asent
    /\ UNCHANGED <<everything, hist, arelay>>

(* The inner try: settimeout(1.0), recv(1024); only socket.timeout is   *)
(* caught there.                                                        *)
ARecv(r) ==
    /\ apc = "recv"
    /\ aout' = ReplyOutcome(r)
    /\ aret' = send_plc_reset(ReplyOutcome(r))
    /\ apc' = "return"
    /\ UNCHANGED <<everything, hist, arelay, asent>>

(* finally: s.close(); the caller receives the result.                  *)
AReturn ==
    /\ apc = "return"
    /\ Invoke(arelay, aout)
    /\ apc' = "idle"
    /\ UNCHANGED <<everything, ioFailed, arelay, aout, asent, aret>>

NextActuator ==
    \/ \E relay \in Relays : ACall(relay)
    \/ \E ok \in BOOLEAN : AConnect(ok)
    \/ \E ok \in BOOLEAN : ASend(ok)
    \/ \E r \in RecvResults : ARecv(r)
    \/ AReturn

SpecActuator == Init /\ [][NextActuator]_vars

(* C11: send_plc_reset returns failure when connect or send fails and   *)
(* success whenever the command was sent, whatever the reply wait does: *)
(* at its return the result is True exactly when sendall completed.     *)
C11_SentMeansSuccess == apc = "return" => (aret <=> asent)

(* ================================================================== *)
(* Handlers whose peers go away                                         *)
(* ================================================================== *)
(* The peer of connection c closes: after the bytes already delivered,  *)
(* recv yields no more data.                                            *)
PeerClose(c) ==
    /\ hpc[c] \notin {"idle", "closed"}
    /\ peer[c] = "open"
    /\ peer' = [peer EXCEPT ![c] = IF hpc[c] = "actuate" THEN "closed_in_reset"
                                   ELSE "closed"]
    /\ UNCHANGED <<clock, shared, hvars, tmp, mvars, hist, hcnt, avars, svars, cvars>>

(* RESET lines received and not yet acted on.                           *)
PendingResets == Cardinality({c \in Conns : hpc[c] = "split"
                                            /\ hbuf[c] = ResetLine \o <<NL>>})
                 + Cardinality({c \in Conns : hpc[c] = "actuate"})

(* A chunk arrives; a RESET line only while an actuation is left for it. *)
LiveRecv(c, data) ==
    /\ data = ResetLine \o <<NL>> => TotalAttempts + PendingResets < MaxResets
    /\ HRecv(c, data)

(* The steps of handle_client between two recv calls, each of which     *)
(* returns: straight-line code, file appends, and send_plc_reset whose  *)
(* socket calls are bounded by settimeout(5.0) and settimeout(1.0).     *)
HStep(c) ==
    \/ HSplit(c)
    \/ HSmartRecord(c)
    \/ \E wrote \in BOOLEAN : HSmartWrite(c, wrote)
    \/ \E o \in Outcomes : HActuate(c, o)
    \/ HIncRead(c)
    \/ HIncWrite(c)
    \/ \E opened \in BOOLEAN : HLogOpen(c, opened)
    \/ HLogWrite(c)
    \/ HTouch(c)
    \/ HStore(c)

NextLive ==
    \/ \E c \in Conns : \E ip \in ConnPeers(c) : Accept(c, ip)
    \/ \E c \in Conns : PeerClose(c)
    \/ \E c \in Conns, data \in OneLine : LiveRecv(c, data)
    \/ \E c \in Conns : HRecvEnd(c)
    \/ \E c \in Conns : HSplit(c)
    \/ \E c \in Conns : HSmartRecord(c)
    \/ \E c \in Conns, wrote \in BOOLEAN : HSmartWrite(c, wrote)
    \/ \E c \in Conns, o \in Outcomes : HActuate(c, o)
    \/ \E c \in Conns : HIncRead(c)
    \/ \E c \in Conns : HIncWrite(c)
    \/ \E c \in Conns, opened \in BOOLEAN : HLogOpen(c, opened)
    \/ \E c \in Conns : HLogWrite(c)
    \/ \E c \in Conns : HTouch(c)
    \/ \E c \in Conns : HStore(c)

(* Fairness: every handler is its own thread, so its next step is taken; *)
(* conn.settimeout(10.0) makes recv return once the peer sends nothing  *)
(* more.                                                                *)
FairLive ==
    \A c \in Conns : /\ WF_vars(HStep(c))
                     /\ WF_vars(peer[c] # "open" /\ HRecvEnd(c))

SpecLive == Init /\ [][NextLive]_vars /\ FairLive

(* C12: once its peer has closed (at any point of the handler, also     *)
(* while it is inside a RESET actuation) a handler eventually closes    *)
(* its connection and ends; and a connection not yet accepted can be    *)
(* accepted whatever the other handlers are doing.                      *)
C12_HandlerEnds ==
    /\ \A c \in Conns : [](peer[c] # "open" => <>(hpc[c] = "closed"))
    /\ [](\A c \in Conns : hpc[c] = "idle" => ENABLED (\E ip \in ConnPeers(c) : Accept(c, ip)))

C12_Witness ==
    \E c \in Conns : /\ peer[c] = "closed_in_reset"
                     /\ hpc[c] = "closed"
                     /\ \E d \in Conns : hpc[d] = "actuate"

(* Handler c is handling a heartbeat: it splits one off its buffer, or  *)
(* holds one.                                                           *)
HeartbeatInHand(c) ==
    \/ hkind[c] = "HB"
    \/ LineTaken(c) /\ TakenLine(c) # <<>> /\ Classify(TakenLine(c)) = "HB"

(* C13: a step a handler takes for a heartbeat line invokes no          *)
(* actuation, changes no reset counter and no file, and changes no      *)
(* last_seen entry but the sender's, which becomes the time read.       *)
C13_HeartbeatFrame ==
    [][\A c \in Conns :
          (HandlerMoved(c) /\ HeartbeatInHand(c))
          => /\ attempts' = attempts /\ successes' = successes
             /\ reset_counts' = reset_counts
             /\ countsFile' = countsFile /\ smartFile' = smartFile
             /\ \A ip \in Peers \ {hip[c]} : last_seen'[ip] = last_seen[ip]
             /\ last_seen'[hip[c]] = (IF hpc[c] = "store" THEN ht[c] ELSE last_seen[hip[c]])
             /\ hpc'[c] \in {"touch", "store", "split"}]_vars

C13_Witness ==
    \E c \in Conns : /\ Registered(c)
                     /\ hkind[c] = "HB"
                     /\ hpc[c] = "store"
                     /\ ht[c] > HEARTBEAT_TIMEOUT
                     /\ reset_counts[SLAVE_TO_RELAY(hip[c])] = 1

(* C14 as claimed: the record built for a telemetry message carries the *)
(* relay's counter as it was when the message was taken from the        *)
(* connection, also when an actuation for the relay completes meanwhile. *)
C14_CountAtReceipt ==
    \A c \in Conns : hpc[c] = "smart_write" => tmp[c] = hcnt[c]

(* C14 as amended: the record carries the relay's counter as it is when *)
(* handle_smart_message builds the record; that value is kept until the *)
(* append, and the appended record carries it with the sender, its      *)
(* relay and the decoded object.                                        *)
C14_CountAtBuild ==
    [][\A c \in Conns :
          LET relay == SLAVE_TO_RELAY(hip[c])
          IN /\ (hpc[c] = "smart" /\ hpc'[c] = "smart_write")
                => tmp'[c] = reset_counts[relay]
             /\ (hpc[c] = "smart_write" /\ hpc'[c] = "smart_write")
                => tmp'[c] = tmp[c]
             /\ (hpc[c] = "smart_write" /\ hpc'[c] # "smart_write" /\ smartFile' # smartFile)
                => smartFile' = [smartFile EXCEPT ![relay] =
                       Append(@, [slave_ip |-> hip[c], relay |-> relay,
                                  reset_count |-> tmp[c], smart |-> hobj[c]])]]_vars

C14_Witness ==
    \E c \in Conns :
        /\ Registered(c)
        /\ hkind[c] = "SMART" /\ ~hbad[c]
        /\ hpc[c] = "touch"
        /\ LET f == smartFile[SLAVE_TO_RELAY(hip[c])]
           IN /\ Len(f) = 1
              /\ f[1].reset_count = 1
              /\ reset_counts[SLAVE_TO_RELAY(hip[c])] = 2

(* ================================================================== *)
(* The slave agent                                                      *)
(* ================================================================== *)
MaxBeats == 3       \* heartbeats the slave sends

(* What the probe can print: a JSON document, or the attribute table.   *)
JsonInfo == <<"{", "}", NL>>
TableInfo == <<"I", "D", NL>>
(* get_smart_info: the tool's standard output, or None (here NoInfo)    *)
(* when the tool cannot be run or exits with a non-zero status.         *)
NoInfo == [none |-> TRUE, out |-> <<>>]
ProbeResults == {NoInfo} \cup {[none |-> FALSE, out |-> t] : t \in {JsonInfo, TableInfo}}

(* json.loads of the probe output: white space around the document is   *)
(* skipped.                                                             *)
RECURSIVE JsonTrim(_)
JsonTrim(s) == IF s # <<>> /\ Head(s) \in Whitespace \cup {NL} THEN JsonTrim(Tail(s))
               ELSE IF s # <<>> /\ s[Len(s)] \in Whitespace \cup {NL}
                    THEN JsonTrim(SubSeq(s, 1, Len(s) - 1))
                    ELSE s

(* json.dumps of a string: quoted, a newline written as \n.             *)
RECURSIVE JsonEscape(_)
JsonEscape(s) == IF s = <<>> THEN <<>>
                 ELSE (IF Head(s) = NL THEN <<"\\", "n">> ELSE <<Head(s)>>)
                      \o JsonEscape(Tail(s))
JsonString(s) == <<"\"">> \o JsonEscape(s) \o <<"\"">>

(* json.dumps({"text": info})                                           *)
TextWrapped(info) ==
    <<"{", "\"", "t", "e", "x", "t", "\"", ":", " ">> \o JsonString(info) \o <<"}">>

(* The payload send_initial_smart builds from the probe output.         *)
Payload(info) == IF JsonLoads(JsonTrim(info)).ok THEN JsonLoads(JsonTrim(info)).obj
                 ELSE TextWrapped(info)

(* Variant: a failed probe is reported as an empty wrapped text.        *)
InitialMessagesAlways(info) ==
    IF info.none THEN << SMART_PREFIX \o TextWrapped(<<>>) \o <<NL>> >>
    ELSE << SMART_PREFIX \o Payload(info.out) \o <<NL>> >>

(* send_initial_smart: the messages it hands to send_to_master.         *)
InitialMessages(info) ==
    IF info.none THEN <<>>
    ELSE << SMART_PREFIX \o Payload(info.out) \o <<NL>> >>

master == <<clock, shared, hvars, tmp, mvars, hist, peer, hcnt>>

(* main starts.                                                         *)
SStart ==
    /\ spc = "off"
    /\ spc' = "probe"
    /\ UNCHANGED <<master, avars, cvars, sinfo, wire, beats, rpc>>

(* info = get_smart_info()                                              *)
SProbe(out) ==
    /\ spc = "probe"
    /\ sinfo' = out
    /\ spc' = "initial"
    /\ UNCHANGED <<master, avars, cvars, wire, beats, rpc>>

(* The rest of send_initial_smart; send_to_master reports whether the   *)
(* message went out, and its result is ignored.                         *)
SInitial(ok) ==
    /\ spc = "initial"
    /\ wire' = wire \o [i \in 1..Len(InitialMessages(sinfo)) |->
                           [msg |-> InitialMessages(sinfo)[i], ok |-> ok]]
    /\ spc' = "schedule"
    /\ UNCHANGED <<master, avars, cvars, sinfo, beats, rpc>>

(* schedule_self_reset(60): the timer thread starts.                    *)
SSchedule ==
    /\ spc = "schedule"
    /\ rpc' = "wait"
    /\ spc' = "beat"
    /\ UNCHANGED <<master, avars, cvars, sinfo, wire, beats>>

(* heartbeat_loop: send_to_master("HB\n")                               *)
SBeat(ok) ==
    /\ spc = "beat"
    /\ beats < MaxBeats
    /\ wire' = Append(wire, [msg |-> HBChunk, ok |-> ok])
    /\ beats' = beats + 1
    /\ spc' = "sleep"
    /\ UNCHANGED <<master, avars, cvars, sinfo, rpc>>

(* time.sleep(HEARTBEAT_INTERVAL)                                       *)
SSleep ==
    /\ spc = "sleep"
    /\ spc' = "beat"
    /\ UNCHANGED <<master, avars, cvars, sinfo, wire, beats, rpc>>

(* The timer thread, 60 s after it started: send_to_master("RESET\n").  *)
(* The first heartbeat goes out, or fails, within the 5 s connect       *)
(* timeout, so it precedes the request.                                 *)
SReset(ok) ==
    /\ rpc = "wait"
    /\ beats >= 1
    /\ wire' = Append(wire, [msg |-> ResetLine \o <<NL>>, ok |-> ok])
    /\ rpc' = "done"
    /\ UNCHANGED <<master, avars, cvars, spc, sinfo, beats>>

NextSlave ==
    \/ SStart
    \/ \E out \in ProbeResults : SProbe(out)
    \/ \E ok \in BOOLEAN : SInitial(ok)
    \/ SSchedule
    \/ \E ok \in BOOLEAN : SBeat(ok)
    \/ SSleep
    \/ \E ok \in BOOLEAN : SReset(ok)

SpecSlave == Init /\ [][NextSlave]_vars

(* Positions in `wire` of the messages that start with "SMART ".        *)
SmartsSent == {i \in 1..Len(wire) : StartsWith(wire[i].msg, SMART_PREFIX)}
InitialDone == spc \in {"schedule", "beat", "sleep"}

RReport ==
    /\ attempts[SLAVE_TO_RELAY(FirstSlave)] >= recvs
    /\ HRecv(1, HBChunk)

(* One second passes: the monitor has run this second's tick and sleeps, *)
(* the slave has reported at least once and no message is in hand.      *)
RSecond ==
    /\ mpc = "sleep"
    /\ mwake = clock + 1
    /\ hpc[1] = "recv"
    /\ last_seen[FirstSlave] # None
    /\ clock' = clock + 1
    /\ UNCHANGED <<xvars, hcnt, shared, hvars, tmp, mvars, hist>>

NextRecover ==
    \/ Accept(1, FirstSlave)
    \/ RReport
    \/ HSplit(1)
    \/ HTouch(1)
    \/ HStore(1)
    \/ RSecond
    \/ MTick
    \/ MScan
    \/ \E o \in Outcomes : MActuate(o)
    \/ MIncRead
    \/ MIncWrite
    \/ \E opened \in BOOLEAN : MLogOpen(opened)
    \/ MLogWrite
    \/ MWake

SpecRecover == Init /\ [][NextRecover]_vars

(* C16: no step of the monitor changes last_seen; and a tick that ends  *)
(* with the slave's latest message recorded before the tick began has   *)
(* made one actuation attempt for it if that message is older than the  *)
(* timeout and none otherwise, whatever the earlier attempts returned:  *)
(* the attempts repeat tick after tick until a message is recorded and  *)
(* resume once that message has aged past the timeout.                  *)
C16_HotLoop ==
    /\ [](TickDone /\ last_seen[FirstSlave] < mnow
            => tickAtt[FirstSlave] = (IF Silence > HEARTBEAT_TIMEOUT THEN 1 ELSE 0))
    /\ [](TickDone /\ recvs = 1
            => attempts[FirstRelay]
               = (IF Silence > HEARTBEAT_TIMEOUT THEN Silence - HEARTBEAT_TIMEOUT ELSE 0))
    /\ [][MonitorMoved => last_seen' = last_seen]_vars

(* The slave was actuated, reported, was left alone while its message   *)
(* was fresh, and is actuated again one second past the timeout.        *)
C16_Witness ==
    /\ TickDone
    /\ recvs = 2
    /\ last_seen[FirstSlave] > HEARTBEAT_TIMEOUT
    /\ Silence = HEARTBEAT_TIMEOUT + 1
    /\ tickAtt[FirstSlave] = 1
    /\ attempts[FirstRelay] = 2
    /\ successes[FirstRelay] = 0

(* ================================================================== *)
(* The master with failing connections                                  *)
(* ================================================================== *)
(* s.accept() raises, or the handler thread cannot be started: the      *)
(* error is logged, the connection is never served, the loop goes on.   *)
AcceptError(c) ==
    /\ hpc[c] = "idle"
    /\ hpc' = [hpc EXCEPT ![c] = "closed"]
    /\ UNCHANGED <<xvars, hcnt, clock, shared, hip, hbuf, hobj, ht, hkind, hAtt, hbad, recvs,
                   tmp, mvars, hist>>

NextFaults ==
    \/ \E c \in Conns : AcceptError(c)
    \/ Next

SpecFaults == Init /\ [][NextFaults]_vars

MonitorPcs == {"tick", "scan", "actuate", "inc_read", "inc_write", "log_open",
               "log_write", "sleep"}
MonitorStep ==
    \/ MTick
    \/ MScan
    \/ MIncRead
    \/ MIncWrite
    \/ \E opened \in BOOLEAN : MLogOpen(opened)
    \/ MLogWrite

(* C17: the monitor is always at a statement of its loop, and its next  *)
(* statement can be executed (the actuation while the model's budget    *)
(* lasts, the wake-up once the second has passed); after a failed       *)
(* actuation or a failed append it goes on with the next registry       *)
(* entry; no step of a handler or of the acceptor, failing or not,      *)
(* moves the monitor; and a connection not yet accepted can be accepted *)
(* whatever has failed before.                                          *)
C17_LoopsSurvive ==
    /\ [](/\ mpc \in MonitorPcs
          /\ mpc \notin {"actuate", "sleep"} => ENABLED MonitorStep
          /\ mpc = "actuate" /\ TotalAttempts < MaxResets
                => ENABLED (\E o \in Outcomes : MActuate(o))
          /\ mpc = "sleep" /\ clock >= mwake => ENABLED MWake
          /\ \A c \in Conns :
                hpc[c] = "idle" => ENABLED (\E ip \in ConnPeers(c) : Accept(c, ip)))
    /\ [][/\ (mpc = "actuate" /\ mpc' # "actuate"
                 /\ successes' = successes)
             => /\ mpc' = "scan" /\ midx' = midx + 1
                /\ reset_counts' = reset_counts /\ countsFile' = countsFile
          /\ (mpc = "log_open" /\ mpc' # "log_open" /\ mpc' # "log_write")
             => mpc' = "scan" /\ midx' = midx + 1
          /\ (\E c \in Conns : HandlerMoved(c))
             => mpc' = mpc /\ midx' = midx /\ mnow' = mnow /\ mwake' = mwake]_vars

(* A tick in which the actuation for the first slave failed, the second *)
(* slave was still actuated, and the monitor reached its sleep.         *)
C17_Witness ==
    /\ mpc = "sleep"
    /\ tickAtt[ScanOrder[1]] = 1 /\ successes[SLAVE_TO_RELAY(ScanOrder[1])] = 0
    /\ tickAtt[ScanOrder[2]] = 1
    /\ \A c \in Conns : hpc[c] = "closed"

(* C18: when the monitor's actuation sends the reset command (here: the *)
(* invocation returns success, so the command went out) the slave's     *)
(* last_seen entry is still older than the timeout: no message from     *)
(* the slave was recorded between the monitor's test and the command.   *)
C18_StillStaleWhenSent ==
    [][(mpc = "actuate" /\ mpc' # "actuate"
           /\ successes'[SLAVE_TO_RELAY(ScanOrder[midx])]
              = successes[SLAVE_TO_RELAY(ScanOrder[midx])] + 1)
       => TimedOut(last_seen[ScanOrder[midx]], clock)]_vars

(* C18 as amended: every actuation of the monitor is for a slave whose  *)
(* entry, when the tick's scan read it, existed and was older than the  *)
(* tick's `now` by more than the timeout; nothing is read again before  *)
(* the command is sent.                                                 *)
C18_StaleWhenScanned ==
    /\ [](mpc \in {"actuate"} \cup Counting \cup Logging
            => ScanOrder[midx] \in staleRead /\ last_seen[ScanOrder[midx]] # None)
    /\ [][/\ (mpc = "scan" /\ mpc' = "actuate")
              => TimedOut(last_seen[ScanOrder[midx]], mnow)
          /\ (mpc = "scan" /\ midx <= NumSlaves /\ mpc' = "scan" /\ midx' # midx)
              => ~TimedOut(last_seen[ScanOrder[midx]], mnow)]_vars

(* The command went out for a slave whose message of this very second   *)
(* was recorded after the scan had read the older entry.                *)
C18_Witness ==
    /\ mpc = "inc_read"
    /\ ScanOrder[midx] \in staleRead
    /\ last_seen[ScanOrder[midx]] = clock

(* C19: a last_seen entry that exists is never removed and never        *)
(* decreases, whatever the interleaving of the handler threads.         *)
C19_LastSeenMonotonic ==
    [][\A ip \in Peers : last_seen[ip] # None
          => last_seen'[ip] # None /\ last_seen'[ip] >= last_seen[ip]]_vars

(* ================================================================== *)
(* The line splitter of handle_client over a chunked byte stream        *)
(* ================================================================== *)
MaxLen == 4         \* bytes in the stream

StreamBytes == {"H", " ", NL, InvalidByte}
Streams == UNION {[1..n -> StreamBytes] : n \in 0..MaxLen}

(* Variant: what is left after the last newline of a chunk is dropped.  *)
RECURSIVE DrainFresh(_)
DrainFresh(buf) ==
    IF ~HasNL(buf) THEN [lines |-> <<>>, rest |-> <<>>]
    ELSE LET line == Strip(Decode(SplitHead(buf)))
             more == DrainFresh(SplitRest(buf))
         IN [lines |-> (IF line = <<>> THEN <<>> ELSE <<line>>) \o more.lines,
             rest |-> more.rest]

(* `while b"\n" in buffer`: the lines dispatched, in order, and the     *)
(* bytes that stay in the buffer.                                       *)
RECURSIVE Drain(_)
Drain(buf) ==
    IF ~HasNL(buf) THEN [lines |-> <<>>, rest |-> buf]
    ELSE LET line == Strip(Decode(SplitHead(buf)))
             more == Drain(SplitRest(buf))
         IN [lines |-> (IF line = <<>> THEN <<>> ELSE <<line>>) \o more.lines,
             rest |-> more.rest]

(* A connection is about to deliver a stream.                           *)
InitChunk ==
    /\ InitMaster
    /\ InitActuator
    /\ InitSlave
    /\ cwhole \in Streams
    /\ cstream = cwhole
    /\ cbuf = <<>>
    /\ cout = <<>>

(* conn.recv returns the next k bytes; buffer += data; the inner loop   *)
(* runs until no newline is left in the buffer.                         *)
CRecv(k) ==
    /\ k <= Len(cstream)
    /\ cstream' = SubSeq(cstream, k + 1, Len(cstream))
    /\ cbuf' = Drain(cbuf \o SubSeq(cstream, 1, k)).rest
    /\ cout' = cout \o Drain(cbuf \o SubSeq(cstream, 1, k)).lines
    /\ UNCHANGED <<master, avars, svars, cwhole>>

(* conn.recv returns b"": the handler ends and its buffer is gone.      *)
CClose ==
    /\ cstream = <<>>
    /\ cbuf # <<>>
    /\ cbuf' = <<>>
    /\ UNCHANGED <<master, avars, svars, cwhole, cstream, cout>>

NextChunk ==
    \/ \E k \in 1..MaxLen : CRecv(k)
    \/ CClose

SpecChunk == InitChunk /\ [][NextChunk]_vars

(* The bytes delivered so far.                                          *)
Delivered == SubSeq(cwhole, 1, Len(cwhole) - Len(cstream))

(* The non-empty trimmed lines of s that end in a newline, found by one *)
(* pass over s; cur is the line being collected.                        *)
RECURSIVE TerminatedLines(_, _, _)
TerminatedLines(s, i, cur) ==
    IF i > Len(s) THEN <<>>
    ELSE IF s[i] = NL
         THEN (IF Strip(Decode(cur)) = <<>> THEN <<>> ELSE <<Strip(Decode(cur))>>)
              \o TerminatedLines(s, i + 1, <<>>)
         ELSE TerminatedLines(s, i + 1, Append(cur, s[i]))

(* C20: however the stream is cut into chunks, the lines dispatched so  *)
(* far are the non-empty trimmed newline-terminated lines of the bytes  *)
(* delivered so far, in order, each once; bytes after the last newline  *)
(* are not among them.                                                  *)
C20_ChunkingIndependent ==
    cout = TerminatedLines(Delivered, 1, <<>>)

C20_Witness ==
    /\ cwhole = <<"H", "H", NL, "H">>
    /\ cstream = <<>>
    /\ cout = << <<"H", "H">> >>
    /\ cbuf = <<>>

====
